---- MODULE Spec2Model ----
(***************************************************************************)
(* RadarNav proximity / zone evaluation engine (src/app.js, first script). *)
(*                                                                         *)
(* Geometry.  Every coordinate of the model lies on the meridian           *)
(* lon = 35.0; a latitude is the integer k standing for 39.0 + k * 1e-4    *)
(* degrees.  On one meridian the haversine formula of distanceMeters       *)
(* reduces to R * |dLat| and bearing() to 0 (target north of, or at, the   *)
(* origin) or 180 (target south).  Distances are kept in millimetres.      *)
(* Times are milliseconds of Date.now().                                   *)
(***************************************************************************)
EXTENDS Integers, Sequences, FiniteSets, TLC

VARIABLES
    radars,              \* app.js:63   hazard catalog (loadSCDB)
    avgZones,            \* app.js:63   corridor catalog (loadAvgZones)
    lastPos,             \* app.js:62   <<>> (null) or <<lat>>
    userHeading,         \* app.js:62   degrees, initially 0
    lastSpeedKmh,        \* app.js:68
    lastAlertTs,         \* app.js:66   declared, never written
    perCameraLastAlert,  \* app.js:67   Map "lat,lon" -> ms
    visibleMarkers,      \* app.js:258  Map index -> marker (its latitude)
    active,              \* app.js:474  activeAvgZoneState.active: <<>> or <<zone>>
    progress,            \* app.js:475  activeAvgZoneState.progress (percent)
    last,                \* app.js:115  throttle()'s closure variable
    now,                 \* Date.now()
    loadPc,              \* loadAllData: "idle" or "loading"
    scdbPending,         \* loadSCDB() of the running loadAllData not settled yet
    zonesPending,        \* loadAvgZones() of the running loadAllData not settled yet
    events,              \* what the last handler emitted, in order
    threw,               \* the last handlePositionInternal ended in its catch
    reloads,             \* clicks on the reload button so far
    call,                \* observer: the callback that ran last and its inputs
    emitAt,              \* observer: key -> time of the latest alert shown for it
    prevEmitAt,          \* observer: key -> time of the alert shown before that
    sessionKmh,          \* observer: speeds update() was given since the last enter()
    scdbFile,            \* observer: the records of SCDB_SpeedCams.json as last parsed
    probe                \* a function applied on its own: its arguments and result

vars == <<radars, avgZones, lastPos, userHeading, lastSpeedKmh, lastAlertTs,
          perCameraLastAlert, visibleMarkers, active, progress, last, now,
          loadPc, scdbPending, zonesPending, events, threw, reloads,
          call, emitAt, prevEmitAt, sessionKmh, scdbFile, probe>>

(***************************************************************************)
(* Program constants                                                       *)
(***************************************************************************)
CAMERA_VISIBLE_M == 10000
ALERT_DISTANCE_M == 1000
ALERT_THROTTLE_MS == 5000
AHEAD_ANGLE_DEG == 60
POSITION_THROTTLE_MS == 300
ZONE_MATCH_CAMERA_M == 200
GAP_EPSILON_M == 60
OVERRUN_EPSILON_M == 30
SYNTHETIC_LIMIT == 50
GLOBAL_THROTTLE_MS == 2500

(***************************************************************************)
(* Bounds of the model                                                     *)
(***************************************************************************)
ClockStart == 100000     \* Date.now() when the page boots (any value >= 5000)
MaxElapsed == 5000       \* the clock stops at ClockStart + MaxElapsed
MaxReloads == 1          \* clicks on the reload button

NoValue == 0 - 1         \* coords.speed / coords.heading null or NaN

(* NaN, for a coordinate that did not parse and for what is computed from  *)
(* it.  Every comparison with NaN is false.                                *)
NaN == 0 - 1000000
IsNaN(x) == x = NaN
Greater(a, b) == ~IsNaN(a) /\ ~IsNaN(b) /\ a > b
Less(a, b) == ~IsNaN(a) /\ ~IsNaN(b) /\ a < b
LessEq(a, b) == ~IsNaN(a) /\ ~IsNaN(b) /\ a <= b

Abs(x) == IF x < 0 THEN 0 - x ELSE x
Min(a, b) == IF a < b THEN a ELSE b
Max(a, b) == IF a > b THEN a ELSE b

(* Haversine distance restricted to one meridian, in millimetres:          *)
(* R * pi/180 * 1e-4 deg = 11.119 m per latitude step.                     *)
distanceMeters(aLat, bLat) ==
    IF IsNaN(aLat) \/ IsNaN(bLat) THEN NaN ELSE 11119 * Abs(bLat - aLat)

(* Initial bearing on one meridian: atan2(0, x) is 0 for x >= 0 (north, or *)
(* the same point) and pi for x < 0 (south).                               *)
bearing(aLat, bLat) ==
    IF IsNaN(aLat) \/ IsNaN(bLat) THEN NaN
    ELSE IF bLat >= aLat THEN 0 ELSE 180

clamp(v, a, b) == Max(a, Min(b, v))

(* Math.round(speedMps * 3.6) for a non-negative integer speed.            *)
RoundKmh(speedMps) == (speedMps * 36 + 5) \div 10

(* Math.round(d) of a distance kept in millimetres, in metres.            *)
RoundM(dmm) == IF IsNaN(dmm) THEN NaN ELSE (dmm + 500) \div 1000

(***************************************************************************)
(* Catalog data the loaders can deliver                                    *)
(***************************************************************************)
H1 == [lat |-> 0, flg |-> 2]      \* fixed camera at 39.0000
H2 == [lat |-> 20, flg |-> 1]     \* average-zone camera at 39.0020
H1b == [lat |-> 0, flg |-> 1]     \* a second record at the coordinates of H1

Z1 == [start |-> 5, end |-> 100, limit |-> 70, synthetic |-> FALSE]
Z2 == [start |-> 0 - 505, end |-> 0 - 400, limit |-> 90, synthetic |-> FALSE]

(* The zone that begins where Z1 ends, and a zone whose start is its end.  *)
Z3 == [start |-> 100, end |-> 200, limit |-> 110, synthetic |-> FALSE]
Z0 == [start |-> 10, end |-> 10, limit |-> 30, synthetic |-> FALSE]

HN == [lat |-> NaN, flg |-> 2]    \* a record whose coordinates do not parse

Catalogs == {<<>>, <<H1>>, <<H2>>, <<H1, H2>>, <<H2, H1>>}

(* Files holding a record without coordinates.                             *)
FilesWithBadRecords == {<<HN>>, <<HN, H1>>, <<H1, HN>>, <<H1, HN, H2>>}

(* The records loadSCDB keeps: those whose lat and lon are finite.         *)
NormaliseKeepsAll(file) == file

Normalise(file) == SelectSeq(file, LAMBDA r : ~IsNaN(r.lat))
ZoneCatalogs == {<<>>, <<Z1>>}

(* Positions the device reports: 22 km south, 5.5 km south, 111 m south of *)
(* H1, and 111 m north of H1 (on Z1, 111 m south of H2).                   *)
Lats == {0 - 2000, 0 - 500, 0 - 10, 10}
SpeedsMps == {NoValue, 10}
Headings == {NoValue, 60, 61, 180}
TimeSteps == {0, 1000, 4000}

(* Date.now() also steps back when the system clock is corrected.          *)
ClockSteps == {0 - 4000, 0, 1000, 5000}

(* A key that tells the two kinds of camera at one place apart.            *)
KeyWithKind(r) == <<r.lat, r.flg>>

Key(r) == r.lat


(***************************************************************************)
(* Marker management                                                       *)
(***************************************************************************)
(* refreshVisibleMarkers: nothing is touched when the catalog is empty;    *)
(* otherwise markers exist exactly for the indices within 10 km, a marker  *)
(* that already exists for an index is kept as it is.                      *)
(* A refresh that shows the cameras within 100 m only.                     *)
refreshNearOnly(cat, vm, userLat) ==
    IF Len(cat) = 0 THEN vm
    ELSE LET visibleIndices ==
                 {i \in 1..Len(cat) :
                     LessEq(distanceMeters(userLat, cat[i].lat), 100 * 1000)}
         IN IF visibleIndices = {} THEN <<>>
            ELSE [i \in visibleIndices |->
                     IF i \in DOMAIN vm THEN vm[i] ELSE cat[i].lat]

refreshKeepsMarkers(cat, vm, userLat) ==
    IF Len(cat) = 0 THEN vm
    ELSE [i \in DOMAIN vm \cup
                 {j \in 1..Len(cat) :
                     LessEq(distanceMeters(userLat, cat[j].lat),
                            CAMERA_VISIBLE_M * 1000)} |->
             IF i \in DOMAIN vm THEN vm[i] ELSE cat[i].lat]

refreshVisibleMarkers(cat, vm, userLat) ==
    IF Len(cat) = 0 THEN vm
    ELSE LET visibleIndices ==
                 {i \in 1..Len(cat) :
                     LessEq(distanceMeters(userLat, cat[i].lat),
                            CAMERA_VISIBLE_M * 1000)}
         IN IF visibleIndices = {} THEN <<>>
            ELSE [i \in visibleIndices |->
                     IF i \in DOMAIN vm THEN vm[i] ELSE cat[i].lat]

(* The change of the marker map, reported when it is not empty.            *)
VisibleSetChanged(old, new) ==
    IF DOMAIN old = DOMAIN new THEN <<>>
    ELSE <<[type |-> "VisibleSetChanged",
            entered |-> DOMAIN new \ DOMAIN old,
            exited |-> DOMAIN old \ DOMAIN new]>>

(***************************************************************************)
(* Average zone state (activeAvgZoneState)                                 *)
(***************************************************************************)
(* st is the part of the state one handler threads through its calls:      *)
(* [ledger, active, progress, out].                                        *)
enter(st, zone) ==
    [st EXCEPT !.active = <<zone>>,
               !.progress = 0,
               !.out = Append(@, [type |-> "ZoneEntered", zone |-> zone])]

update(st, pct, currentKmh) ==
    [st EXCEPT !.progress = pct,
               !.out = Append(@, [type |-> "ZoneProgress", pct |-> pct,
                                  kmh |-> currentKmh, zone |-> st.active])]

exit(st) ==
    [st EXCEPT !.active = <<>>,
               !.out = IF st.active = <<>> THEN @
                       ELSE Append(@, [type |-> "ZoneExited", zone |-> st.active[1]])]

(***************************************************************************)
(* Camera alert detection                                                  *)
(***************************************************************************)
RECURSIVE FirstZoneNearCamera(_, _, _)
FirstZoneNearCamera(zones, i, camera) ==
    IF i > Len(zones) THEN <<>>
    ELSE LET d1 == distanceMeters(camera.lat, zones[i].start)
             d2 == distanceMeters(camera.lat, zones[i].end)
             nearest == IF IsNaN(d1) \/ IsNaN(d2) THEN NaN ELSE Min(d1, d2)
         IN IF Less(nearest, ZONE_MATCH_CAMERA_M * 1000) THEN <<zones[i]>>
            ELSE FirstZoneNearCamera(zones, i + 1, camera)

findAvgZoneMatchingCamera(zones, camera) == FirstZoneNearCamera(zones, 1, camera)

SyntheticZone(camera) ==
    [start |-> camera.lat, end |-> camera.lat, limit |-> SYNTHETIC_LIMIT,
     synthetic |-> TRUE]

triggerCameraAlert(st, zones, camera, distanceM) ==
    LET shown == [st EXCEPT !.out = Append(@, [type |-> "HazardAlert",
                                               key |-> Key(camera),
                                               lat |-> camera.lat,
                                               kind |-> camera.flg,
                                               distanceM |-> distanceM])]
        found == findAvgZoneMatchingCamera(zones, camera)
    IN IF camera.flg = 1
       THEN IF found # <<>> THEN enter(shown, found[1])
            ELSE enter(shown, SyntheticZone(camera))
       ELSE shown

LedgerGet(ledger, k) == IF k \in DOMAIN ledger THEN ledger[k] ELSE 0

(* A new map holding only the entry written.                               *)
LedgerSetFresh(ledger, k, t) == [x \in {k} |-> t]

LedgerSet(ledger, k, t) ==
    [x \in DOMAIN ledger \cup {k} |-> IF x = k THEN t ELSE ledger[x]]

(* The difference taken without the wrap at 360.                           *)
angleDiffNoWrap(brg, headingDeg) ==
    IF IsNaN(brg) THEN NaN ELSE Abs(brg - headingDeg)

angleDiffOf(brg, headingDeg) ==
    IF IsNaN(brg) THEN NaN
    ELSE LET a == Abs((brg - headingDeg + 360) % 360)
         IN IF a > 180 THEN 360 - a ELSE a

(* A filter five degrees too wide.                                         *)
IsAheadWide(angleDiff) == ~Greater(angleDiff, AHEAD_ANGLE_DEG + 5)

IsAhead(angleDiff) == ~Greater(angleDiff, AHEAD_ANGLE_DEG)

(* The per-camera check made against the wrong, shorter interval.          *)
ThrottleOkShort(t, lastTs) == t - lastTs >= GLOBAL_THROTTLE_MS

ThrottleOk(t, lastTs) == t - lastTs >= ALERT_THROTTLE_MS

RECURSIVE ScanCameras(_, _, _, _, _, _, _)
ScanCameras(st, cat, zones, i, userLat, headingDeg, t) ==
    IF i > Len(cat) THEN st
    ELSE LET r == cat[i]
             d == distanceMeters(userLat, r.lat)
             brg == bearing(userLat, r.lat)
             lastTs == LedgerGet(st.ledger, Key(r))
             next ==
                 IF Greater(d, ALERT_DISTANCE_M * 1000) THEN st
                 ELSE IF ~IsAhead(angleDiffOf(brg, headingDeg)) THEN st
                 ELSE IF ~ThrottleOk(t, lastTs) THEN st
                 ELSE triggerCameraAlert(
                          [st EXCEPT !.ledger = LedgerSet(@, Key(r), t)],
                          zones, r, RoundM(d))
         IN ScanCameras(next, cat, zones, i + 1, userLat, headingDeg, t)

detectApproachingCameras(st, cat, zones, userLat, headingDeg, t) ==
    IF Len(cat) = 0 THEN st
    ELSE ScanCameras(st, cat, zones, 1, userLat, headingDeg, t)

(***************************************************************************)
(* Average zone progress                                                   *)
(***************************************************************************)
(* The test with a gap of exactly 60 m let through.                        *)
WithinToleranceClosed(total, dStart, dEnd) ==
    LET gap == Abs((dStart + dEnd) - total)
    IN gap <= GAP_EPSILON_M * 1000 /\ dStart <= total + OVERRUN_EPSILON_M * 1000

(* The tolerance test on the three distances, in millimetres.              *)
WithinTolerance(total, dStart, dEnd) ==
    LET gap == Abs((dStart + dEnd) - total)
    IN gap < GAP_EPSILON_M * 1000 /\ dStart <= total + OVERRUN_EPSILON_M * 1000

OnCorridor(z, userLat) ==
    WithinTolerance(distanceMeters(z.start, z.end),
                    distanceMeters(z.start, userLat),
                    distanceMeters(z.end, userLat))

PctNaN == 0 - 1

(* clamp(dStart / total, 0, 1) in percent; 0/0 is NaN, x/0 is Infinity.    *)
PctOf(z, userLat) ==
    LET total == distanceMeters(z.start, z.end)
        dStart == distanceMeters(z.start, userLat)
    IN IF total = 0
       THEN IF dStart = 0 THEN PctNaN ELSE 100
       ELSE clamp((dStart * 100) \div total, 0, 100)

(* The search that goes on after a match and keeps the last one.           *)
RECURSIVE LastZoneAt(_, _, _)
LastZoneAt(zones, i, userLat) ==
    IF i > Len(zones) THEN <<>>
    ELSE LET later == LastZoneAt(zones, i + 1, userLat)
         IN IF later # <<>> THEN later
            ELSE IF OnCorridor(zones[i], userLat) THEN <<zones[i]>>
            ELSE <<>>

RECURSIVE FirstZoneAt(_, _, _)
FirstZoneAt(zones, i, userLat) ==
    IF i > Len(zones) THEN <<>>
    ELSE IF OnCorridor(zones[i], userLat) THEN <<zones[i]>>
    ELSE FirstZoneAt(zones, i + 1, userLat)

detectAvgZoneProgress(st, zones, userLat, kmh) ==
    LET found == FirstZoneAt(zones, 1, userLat)
    IN IF found # <<>> THEN update(st, PctOf(found[1], userLat), kmh)
       ELSE exit(st)

(* What the observer records of a callback. *)
Called(op, speedMps, heading) ==
    [op |-> op, speedMps |-> speedMps, heading |-> heading]

(***************************************************************************)
(* State after boot(): both catalogs loaded, no position received yet.     *)
(***************************************************************************)
Program(files, zoneCats) ==
    /\ scdbFile \in files
    /\ radars = Normalise(scdbFile)
    /\ avgZones \in zoneCats
    /\ lastPos = <<>>
    /\ userHeading = 0
    /\ lastSpeedKmh = 0
    /\ lastAlertTs = 0
    /\ perCameraLastAlert = <<>>
    /\ visibleMarkers = <<>>
    /\ active = <<>>
    /\ progress = 0
    /\ last = 0
    /\ now = ClockStart
    /\ loadPc = "idle"
    /\ scdbPending = FALSE
    /\ zonesPending = FALSE
    /\ events = <<>>
    /\ threw = FALSE
    /\ reloads = 0
    /\ call = Called("boot", NoValue, NoValue)
    /\ emitAt = <<>>
    /\ prevEmitAt = <<>>
    /\ sessionKmh = <<>>

Boot(files, zoneCats) ==
    /\ Program(files, zoneCats)
    /\ probe = <<>>

AlertsIn(evs) == {i \in 1..Len(evs) : evs[i].type = "HazardAlert"}

AlertKeys(evs) == {evs[i].key : i \in AlertsIn(evs)}

(* The observer follows the events of one handler in order: it notes when  *)
(* the latest two alerts of each key were shown, and the speeds update()   *)
(* was given for the zone entered last.                                    *)
RECURSIVE Observe(_, _, _, _)
Observe(seen, evs, i, t) ==
    IF i > Len(evs) THEN seen
    ELSE LET e == evs[i]
             k == e.lat
             prev == IF k \in DOMAIN seen.at
                     THEN LedgerSet(seen.prev, k, seen.at[k])
                     ELSE seen.prev
             after ==
                 IF e.type = "HazardAlert"
                 THEN [seen EXCEPT !.at = LedgerSet(@, k, t), !.prev = prev]
                 ELSE IF e.type = "ZoneEntered"
                 THEN [seen EXCEPT !.kmh = <<>>]
                 ELSE IF e.type = "ZoneProgress" /\ e.zone # <<>>
                 THEN [seen EXCEPT !.kmh = Append(@, e.kmh)]
                 ELSE seen
         IN Observe(after, evs, i + 1, t)

Init == Boot(Catalogs, ZoneCatalogs)

(***************************************************************************)
(* handlePositionInternal, run at time t for one watchPosition callback.   *)
(* A truthy coords.accuracy reaches the read of the undeclared             *)
(* accuracyCircle, whose ReferenceError ends the handler in its catch.     *)
(***************************************************************************)
ResolveHeading(heading, lat) ==
    IF heading # NoValue THEN heading
    ELSE IF lastPos # <<>> THEN bearing(lastPos[1], lat)
    ELSE userHeading

ResolveSpeed(speedMps) ==
    IF speedMps # NoValue THEN RoundKmh(speedMps) ELSE lastSpeedKmh

(* refreshVisibleMarkers, detectApproachingCameras, detectAvgZoneProgress  *)
(* in the order of app.js:375-377.                                         *)
RunPipeline(lat, kmh, rotation, t) ==
    LET vm == refreshVisibleMarkers(radars, visibleMarkers, lat)
        st0 == [ledger |-> perCameraLastAlert, active |-> active,
                progress |-> progress,
                out |-> VisibleSetChanged(visibleMarkers, vm)]
        st1 == detectApproachingCameras(st0, radars, avgZones, lat, rotation, t)
        st2 == detectAvgZoneProgress(st1, avgZones, lat, kmh)
    IN [vm |-> vm, st |-> st2,
        seen |-> Observe([at |-> emitAt, prev |-> prevEmitAt,
                          kmh |-> IF active = <<>> THEN <<>> ELSE sessionKmh],
                         st2.out, 1, t)]

handlePositionInternal(lat, speedMps, heading, accuracy, t) ==
    LET rotation == ResolveHeading(heading, lat)
        kmh == ResolveSpeed(speedMps)
    IN /\ userHeading' = rotation
       /\ lastPos' = <<lat>>
       /\ IF accuracy
          THEN /\ threw' = TRUE
               /\ events' = <<>>
               /\ UNCHANGED <<lastSpeedKmh, visibleMarkers, perCameraLastAlert,
                              active, progress, emitAt, prevEmitAt, sessionKmh>>
          ELSE \E r \in {RunPipeline(lat, kmh, rotation, t)} :
                  /\ threw' = FALSE
                  /\ lastSpeedKmh' = kmh
                  /\ visibleMarkers' = r.vm
                  /\ perCameraLastAlert' = r.st.ledger
                  /\ active' = r.st.active
                  /\ progress' = r.st.progress
                  /\ events' = r.st.out
                  /\ emitAt' = r.seen.at
                  /\ prevEmitAt' = r.seen.prev
                  /\ sessionKmh' = r.seen.kmh

(* onPositionUpdate through throttle(handlePositionInternal, 300): the     *)
(* callback runs the handler when at least 300 ms have passed since the    *)
(* last run, and is dropped otherwise.  The inputs are drawn from the sets *)
(* given.                                                                  *)
(* A throttle that lets a call through one millisecond early.              *)
throttlePassesEarly(t, lastCall) == t - lastCall >= POSITION_THROTTLE_MS - 1

(* throttle(): the call made at t goes through to the handler.             *)
throttlePasses(t, lastCall) == t - lastCall >= POSITION_THROTTLE_MS

PositionHandledIn(dts, lats, speeds, headings, accs) ==
    \E dt \in dts, lat \in lats, speedMps \in speeds, heading \in headings,
       accuracy \in accs :
        /\ now + dt >= ClockStart
        /\ now + dt <= ClockStart + MaxElapsed
        /\ throttlePasses(now + dt, last)
        /\ now' = now + dt
        /\ last' = now + dt
        /\ handlePositionInternal(lat, speedMps, heading, accuracy, now + dt)
        /\ call' = Called("position", speedMps, heading)
        /\ UNCHANGED <<radars, avgZones, lastAlertTs, loadPc, scdbPending,
                       zonesPending, reloads, scdbFile>>

PositionProcessedIn(dts, lats, speeds, headings, accs) ==
    /\ PositionHandledIn(dts, lats, speeds, headings, accs)
    /\ UNCHANGED probe

PositionDroppedIn(dts) ==
    \E dt \in dts :
        /\ now + dt >= ClockStart
        /\ now + dt <= ClockStart + MaxElapsed
        /\ ~throttlePasses(now + dt, last)
        /\ now' = now + dt
        /\ events' = <<>>
        /\ call' = Called("dropped", NoValue, NoValue)
        /\ UNCHANGED <<radars, avgZones, lastPos, userHeading, lastSpeedKmh,
                       lastAlertTs, perCameraLastAlert, visibleMarkers, active,
                       progress, last, loadPc, scdbPending, zonesPending,
                       threw, reloads, emitAt, prevEmitAt, sessionKmh, scdbFile, probe>>

(* A position callback while the catalogs may be reloading: any place, any *)
(* speed, with or without an accuracy reading.                             *)
PositionProcessed ==
    PositionProcessedIn({0, 4000}, Lats, SpeedsMps, {NoValue}, BOOLEAN)

PositionDropped == PositionDroppedIn({0})

(* A position callback on a drive: any place, heading and time step.       *)
DrivePosition ==
    PositionProcessedIn(TimeSteps, Lats, {NoValue}, Headings, BOOLEAN)

DriveDropped == PositionDroppedIn(TimeSteps)

(***************************************************************************)
(* loadAllData (the reload button): loadSCDB and loadAvgZones run          *)
(* concurrently, each assigns its catalog when its fetch settles (the      *)
(* empty catalog when it fails); the markers are refreshed once both have  *)
(* settled.                                                                *)
(***************************************************************************)
ReloadClick ==
    /\ loadPc = "idle"
    /\ reloads < MaxReloads
    /\ reloads' = reloads + 1
    /\ loadPc' = "loading"
    /\ scdbPending' = TRUE
    /\ zonesPending' = TRUE
    /\ events' = <<>>
    /\ call' = Called("reload", NoValue, NoValue)
    /\ UNCHANGED <<radars, avgZones, lastPos, userHeading, lastSpeedKmh,
                   lastAlertTs, perCameraLastAlert, visibleMarkers, active,
                   progress, last, now, threw, emitAt, prevEmitAt, sessionKmh, scdbFile, probe>>

(* A load that also starts a new alert ledger.                             *)
LoadSCDBSettlesResets(file) ==
    /\ scdbPending
    /\ scdbFile' = file
    /\ radars' = Normalise(file)
    /\ perCameraLastAlert' = <<>>
    /\ scdbPending' = FALSE
    /\ events' = <<>>
    /\ call' = Called("reload", NoValue, NoValue)
    /\ UNCHANGED <<avgZones, lastPos, userHeading, lastSpeedKmh, lastAlertTs,
                   visibleMarkers, active, progress, last,
                   now, loadPc, zonesPending, threw, reloads, emitAt, prevEmitAt, sessionKmh,
                   probe>>

LoadSCDBSettles(file) ==
    /\ scdbPending
    /\ scdbFile' = file
    /\ radars' = Normalise(file)
    /\ scdbPending' = FALSE
    /\ events' = <<>>
    /\ call' = Called("reload", NoValue, NoValue)
    /\ UNCHANGED <<avgZones, lastPos, userHeading, lastSpeedKmh, lastAlertTs,
                   perCameraLastAlert, visibleMarkers, active, progress, last,
                   now, loadPc, zonesPending, threw, reloads, emitAt, prevEmitAt, sessionKmh,
                   probe>>

loadSCDB == \E file \in Catalogs \ {<<>>} : LoadSCDBSettles(file)

(* A catch that leaves the catalog loaded before in place.                 *)
catalogKeptOnError(previous) == previous

(* The catch of loadSCDB: radars = [].                                     *)
catalogOnError(previous) == <<>>

loadSCDBFails ==
    /\ scdbPending
    /\ scdbFile' = <<>>
    /\ radars' = catalogOnError(radars)
    /\ scdbPending' = FALSE
    /\ events' = <<>>
    /\ call' = Called("reload", NoValue, NoValue)
    /\ UNCHANGED <<avgZones, lastPos, userHeading, lastSpeedKmh, lastAlertTs,
                   perCameraLastAlert, visibleMarkers, active, progress, last,
                   now, loadPc, zonesPending, threw, reloads, emitAt, prevEmitAt,
                   sessionKmh, probe>>

LoadAvgZonesSettles(zones) ==
    /\ zonesPending
    /\ avgZones' = zones
    /\ zonesPending' = FALSE
    /\ events' = <<>>
    /\ call' = Called("reload", NoValue, NoValue)
    /\ UNCHANGED <<radars, lastPos, userHeading, lastSpeedKmh, lastAlertTs,
                   perCameraLastAlert, visibleMarkers, active, progress, last,
                   now, loadPc, scdbPending, threw, reloads, emitAt, prevEmitAt, sessionKmh, scdbFile, probe>>

loadAvgZones == \E zones \in ZoneCatalogs \ {<<>>} : LoadAvgZonesSettles(zones)

loadAvgZonesFails == LoadAvgZonesSettles(<<>>)

loadAllData ==
    /\ loadPc = "loading"
    /\ ~scdbPending
    /\ ~zonesPending
    /\ loadPc' = "idle"
    /\ call' = Called("reload", NoValue, NoValue)
    /\ LET vm == IF lastPos # <<>>
                 THEN refreshVisibleMarkers(radars, visibleMarkers, lastPos[1])
                 ELSE visibleMarkers
       IN /\ visibleMarkers' = vm
          /\ events' = VisibleSetChanged(visibleMarkers, vm)
    /\ UNCHANGED <<radars, avgZones, lastPos, userHeading, lastSpeedKmh,
                   lastAlertTs, perCameraLastAlert, active, progress, last, now,
                   scdbPending, zonesPending, threw, reloads, emitAt, prevEmitAt, sessionKmh, scdbFile, probe>>

Reload ==
    \/ ReloadClick
    \/ loadSCDB
    \/ loadSCDBFails
    \/ loadAvgZones
    \/ loadAvgZonesFails
    \/ loadAllData

(* The whole program: position callbacks interleaved with a reload.        *)
Next == PositionProcessed \/ PositionDropped \/ Reload

Spec == Init /\ [][Next]_vars

(* A drive with the catalogs loaded at boot.                               *)
NextDrive == DrivePosition \/ DriveDropped

SpecDrive == Init /\ [][NextDrive]_vars

(* A drive past the average-zone camera with two zones in the catalog: Z1  *)
(* next to the camera and Z2 five kilometres to the south.                 *)
ZonesPosition ==
    PositionProcessedIn(TimeSteps, Lats, SpeedsMps, {NoValue, 180}, BOOLEAN)

NextZones == ZonesPosition \/ DriveDropped

SpecZones == Boot({<<H2>>}, {<<Z1, Z2>>, <<Z2, Z1>>}) /\ [][NextZones]_vars

(* A drive after a boot from a file that holds a record without            *)
(* coordinates.                                                            *)
NextLoad == DrivePosition \/ DriveDropped

SpecLoad == Boot(FilesWithBadRecords, ZoneCatalogs) /\ [][NextLoad]_vars

(* A drive while the system clock is being corrected.                      *)
ClockPosition ==
    PositionProcessedIn(ClockSteps, {0 - 10, 10}, {NoValue}, {NoValue, 180},
                        {FALSE})

ClockDropped == PositionDroppedIn(ClockSteps)

NextClock == ClockPosition \/ ClockDropped

SpecClock == Init /\ [][NextClock]_vars

(* A drive along Z1 up to the junction with Z3, or over the zone of no     *)
(* length, with the average-zone camera in the catalog or without it.      *)
JunctionLats == {10, 50, 99}

JunctionPosition ==
    PositionProcessedIn(TimeSteps, JunctionLats, SpeedsMps, {NoValue}, BOOLEAN)

NextJunction == JunctionPosition \/ DriveDropped

SpecJunction ==
    Boot({<<>>, <<H2>>}, {<<Z1, Z3>>, <<Z3, Z1>>, <<Z0>>})
        /\ [][NextJunction]_vars

(* Callbacks that arrive together, just inside and just outside the        *)
(* interval of the position throttle.                                      *)
BurstSteps == {0, 299, 300}

BurstPosition ==
    PositionProcessedIn(BurstSteps, {0 - 2000, 0 - 10}, {NoValue}, {NoValue},
                        {FALSE})

BurstDropped == PositionDroppedIn(BurstSteps)

NextBurst == BurstPosition \/ BurstDropped

SpecBurst == Boot({<<H1>>}, {<<>>}) /\ [][NextBurst]_vars

(* The alert overlay (showCenteredAlert) and its hide timers, driven by    *)
(* the alerts of handled updates. probe holds whether the overlay is       *)
(* hidden, the times at which pending timers are due and the time the      *)
(* latest alert was shown. A timer runs when it is due, before any         *)
(* callback that arrives later.                                            *)
ALERT_DISPLAY_MS == 3600

showCenteredAlert(overlay, t) ==
    [hidden |-> FALSE,
     timers |-> overlay.timers \cup {t + ALERT_DISPLAY_MS},
     shownAt |-> t]

InitOverlay ==
    /\ Program({<<H1, H2>>}, {<<>>})
    /\ probe = [hidden |-> TRUE, timers |-> {}, shownAt |-> NoValue]

OverlayPosition ==
    /\ PositionHandledIn({1000, 4000}, {0 - 10, 10}, {NoValue}, {0, 180},
                         {FALSE})
    /\ \A due \in probe.timers : due >= now'
    /\ probe' = IF AlertsIn(events') # {}
                THEN showCenteredAlert(probe, now')
                ELSE probe

hideTimer ==
    /\ probe.timers # {}
    /\ \E due \in probe.timers :
           /\ \A other \in probe.timers : due <= other
           /\ due <= ClockStart + MaxElapsed
           /\ now' = due
           /\ probe' = [probe EXCEPT !.hidden = TRUE, !.timers = @ \ {due}]
    /\ events' = <<>>
    /\ call' = Called("timer", NoValue, NoValue)
    /\ UNCHANGED <<radars, avgZones, lastPos, userHeading, lastSpeedKmh,
                   lastAlertTs, perCameraLastAlert, visibleMarkers, active,
                   progress, last, loadPc, scdbPending, zonesPending, threw,
                   reloads, emitAt, prevEmitAt, sessionKmh, scdbFile>>

NextOverlay == OverlayPosition \/ hideTimer

SpecOverlay == InitOverlay /\ [][NextOverlay]_vars

(* A file with two records at the same coordinates, replaced by a reload   *)
(* with a catalog that has the camera at another index.                    *)
SpecIdentity ==
    Boot({<<H1, H1b>>, <<H1b, H1>>}, {<<>>}) /\ [][Next]_vars

(* The variables of the program, which a function applied on its own      *)
(* leaves alone.                                                           *)
programVars == <<radars, avgZones, lastPos, userHeading, lastSpeedKmh,
                 lastAlertTs, perCameraLastAlert, visibleMarkers, active,
                 progress, last, now, loadPc, scdbPending, zonesPending,
                 events, threw, reloads, call, emitAt, prevEmitAt, sessionKmh,
                 scdbFile>>

(* The angle test of the scan on its own: every whole bearing against      *)
(* every whole heading.                                                    *)
Degrees == 0..359

InitAngle ==
    /\ Program({<<>>}, {<<>>})
    /\ probe \in {[brg |-> b, headingDeg |-> h, done |-> FALSE,
                    angleDiff |-> NoValue] : b, h \in Degrees}

ApplyAngleDiff ==
    /\ ~probe.done
    /\ probe' = [probe EXCEPT
                    !.done = TRUE,
                    !.angleDiff = angleDiffOf(probe.brg, probe.headingDeg)]
    /\ UNCHANGED programVars

SpecAngle == InitAngle /\ [][ApplyAngleDiff]_vars

(* The tolerance test on its own: corridor lengths, and distances to the   *)
(* two ends that lie at and around the two tolerances, in millimetres.     *)
Totals == {0, 100000, 1000000}

Offsets == {0, 1, 29999, 30000, 30001, 59999, 60000, 60001}

Around(total) ==
    Offsets \cup {total + o : o \in Offsets}
            \cup {total - o : o \in {x \in Offsets : x <= total}}

InitCorridor ==
    /\ Program({<<>>}, {<<>>})
    /\ probe \in {[total |-> t, dStart |-> s, dEnd |-> e, done |-> FALSE,
                    on |-> FALSE] :
                      t \in Totals, s \in UNION {Around(x) : x \in Totals},
                      e \in UNION {Around(x) : x \in Totals}}

ApplyTolerance ==
    /\ ~probe.done
    /\ probe' = [probe EXCEPT
                    !.done = TRUE,
                    !.on = WithinTolerance(probe.total, probe.dStart,
                                           probe.dEnd)]
    /\ UNCHANGED programVars

SpecCorridor == InitCorridor /\ [][ApplyTolerance]_vars

(***************************************************************************)
(* The speed samples of a zone session. The variant of part_005 declares   *)
(* avgState.samples; the functions that fill it are not in the sources and *)
(* are modelled from the specification: entering a zone clears the buffer, *)
(* every sample in the zone appends its speed, at most the last            *)
(* zoneSpeedSampleCap speeds are kept, and the exit clears it. The n-th    *)
(* sample of a session carries the speed n, so that the buffer shows which *)
(* samples it holds.                                                       *)
(***************************************************************************)
zoneSpeedSampleCap == 80

MaxSamples == 120

(* The buffer grown without a cap.                                         *)
appendSampleUncapped(samples, kmh) == Append(samples, kmh)

appendSample(samples, kmh) ==
    IF Len(samples) >= zoneSpeedSampleCap
    THEN Append(Tail(samples), kmh)
    ELSE Append(samples, kmh)

InitSamples ==
    /\ Program({<<>>}, {<<>>})
    /\ probe = [inZone |-> FALSE, speedSamples |-> <<>>, arrived |-> 0]

avgStateEnter ==
    /\ ~probe.inZone
    /\ probe' = [inZone |-> TRUE, speedSamples |-> <<>>, arrived |-> 0]
    /\ UNCHANGED programVars

avgStateSample ==
    /\ probe.inZone
    /\ probe.arrived < MaxSamples
    /\ probe' = [probe EXCEPT
                    !.arrived = @ + 1,
                    !.speedSamples = appendSample(@, probe.arrived + 1)]
    /\ UNCHANGED programVars

avgStateExit ==
    /\ probe.inZone
    /\ probe' = [inZone |-> FALSE, speedSamples |-> <<>>, arrived |-> 0]
    /\ UNCHANGED programVars

NextSamples == avgStateEnter \/ avgStateSample \/ avgStateExit

SpecSamples == InitSamples /\ [][NextSamples]_vars

(***************************************************************************)
(* NoSleep (nosleep.js), on a browser that has navigator.wakeLock. probe   *)
(* holds the object's fields, the promises that have not settled and what  *)
(* the browser holds:                                                      *)
(*   enabled, wakeLock    this.enabled, this.wakeLock (0 is null)          *)
(*   pending              enable() calls waiting for their request         *)
(*   listenerPending      requests of visibilitychange listeners waiting   *)
(*   releasing            locks whose release() promise has not resolved   *)
(*   held                 locks granted and not released                   *)
(*   listeners            visibilitychange listeners registered            *)
(*   granted              locks granted so far; they are numbered from 1   *)
(*   enables, disables, changes   calls and events so far                  *)
(*   overlapped           an enable() passed its guard while another       *)
(*                        enable() was waiting                             *)
(*   woke                 a listener has requested a lock                  *)
(***************************************************************************)
MaxEnables == 3

MaxDisables == 2

MaxChanges == 1

InitNoSleep ==
    /\ Program({<<>>}, {<<>>})
    /\ probe = [enabled |-> FALSE, wakeLock |-> 0, pending |-> 0,
                listenerPending |-> 0, releasing |-> {}, held |-> {},
                listeners |-> 0, granted |-> 0, enables |-> 0, disables |-> 0,
                changes |-> 0, overlapped |-> FALSE, woke |-> FALSE]

(* enable() up to its await.                                               *)
NoSleepEnable ==
    /\ probe.enables < MaxEnables
    /\ probe' = IF probe.enabled
                THEN [probe EXCEPT !.enables = @ + 1]
                ELSE [probe EXCEPT !.enables = @ + 1,
                                   !.pending = @ + 1,
                                   !.overlapped = @ \/ probe.pending > 0]
    /\ UNCHANGED programVars

(* The request of an enable() is granted: the rest of its try block.       *)
NoSleepRequestResolves ==
    /\ probe.pending > 0
    /\ probe' = [probe EXCEPT !.pending = @ - 1,
                              !.granted = @ + 1,
                              !.held = @ \cup {probe.granted + 1},
                              !.wakeLock = probe.granted + 1,
                              !.enabled = TRUE,
                              !.listeners = @ + 1]
    /\ UNCHANGED programVars

(* The request of an enable() is refused: its catch.                       *)
NoSleepRequestRejects ==
    /\ probe.pending > 0
    /\ probe' = [probe EXCEPT !.pending = @ - 1]
    /\ UNCHANGED programVars

NoSleepDisable ==
    /\ probe.disables < MaxDisables
    /\ probe' = IF ~probe.enabled
                THEN [probe EXCEPT !.disables = @ + 1]
                ELSE [probe EXCEPT
                         !.disables = @ + 1,
                         !.releasing = IF probe.wakeLock # 0
                                       THEN @ \cup {probe.wakeLock} ELSE @,
                         !.enabled = FALSE]
    /\ UNCHANGED programVars

(* A release() promise resolves: the lock is free and the then callback    *)
(* sets this.wakeLock = null.                                              *)
NoSleepReleaseResolves ==
    /\ \E lock \in probe.releasing :
           probe' = [probe EXCEPT !.releasing = @ \ {lock},
                                  !.held = @ \ {lock},
                                  !.wakeLock = 0]
    /\ UNCHANGED programVars

(* The page becomes visible: every registered listener runs.               *)
NoSleepVisibilityChange ==
    /\ probe.listeners > 0
    /\ probe.changes < MaxChanges
    /\ probe' = IF probe.wakeLock = 0
                THEN [probe EXCEPT !.changes = @ + 1,
                                   !.listenerPending = @ + probe.listeners,
                                   !.woke = TRUE]
                ELSE [probe EXCEPT !.changes = @ + 1]
    /\ UNCHANGED programVars

NoSleepListenerResolves ==
    /\ probe.listenerPending > 0
    /\ probe' = [probe EXCEPT !.listenerPending = @ - 1,
                              !.granted = @ + 1,
                              !.held = @ \cup {probe.granted + 1},
                              !.wakeLock = probe.granted + 1]
    /\ UNCHANGED programVars

NoSleepListenerRejects ==
    /\ probe.listenerPending > 0
    /\ probe' = [probe EXCEPT !.listenerPending = @ - 1]
    /\ UNCHANGED programVars

NextNoSleep ==
    \/ NoSleepEnable
    \/ NoSleepRequestResolves
    \/ NoSleepRequestRejects
    \/ NoSleepDisable
    \/ NoSleepReleaseResolves
    \/ NoSleepVisibilityChange
    \/ NoSleepListenerResolves
    \/ NoSleepListenerRejects

SpecNoSleep == InitNoSleep /\ [][NextNoSleep]_vars

(***************************************************************************)
(* Properties                                                              *)
(***************************************************************************)
(* The last step was a position callback whose handler ran to its end.     *)
Ingested == call.op = "position" /\ ~threw

(* Smallest separation of two compass directions, in degrees.              *)
Separation(a, b) ==
    LET d == Abs(a - b) % 360
    IN Min(d, 360 - d)

CatalogHazards == {radars[i] : i \in 1..Len(radars)}

InAlertRange(pos, r) ==
    pos # <<>> /\ distanceMeters(pos[1], r.lat) <= ALERT_DISTANCE_M * 1000

EventsOf(evs, type) == {i \in 1..Len(evs) : evs[i].type = type}

RECURSIVE SumOf(_)
SumOf(seq) == IF seq = <<>> THEN 0 ELSE Head(seq) + SumOf(Tail(seq))

(* Every alert the observer still remembers: <<key, time>>, the latest and *)
(* the one before it for each key.                                         *)
ShownLatest == {<<k, "latest", emitAt[k]>> : k \in DOMAIN emitAt}
ShownBefore == {<<k, "before", prevEmitAt[k]>> : k \in DOMAIN prevEmitAt}

(* C1: one processed position update emits at most one HazardAlert, even   *)
(* when several hazards are in alert distance, ahead and out of cool-down. *)
C1_AtMostOneAlertPerIngest == Cardinality(EventsOf(events, "HazardAlert")) <= 1

(* C2: two HazardAlerts for the same hazard are never less than            *)
(* ALERT_THROTTLE_MS (5000 ms) apart; a gap of exactly 5000 ms is allowed. *)
C2_PerHazardThrottle ==
    \A k \in DOMAIN prevEmitAt : emitAt[k] - prevEmitAt[k] >= ALERT_THROTTLE_MS

(* A hazard alerts again exactly 5000 ms after its previous alert.         *)
C2_Realerted ==
    \E k \in DOMAIN prevEmitAt :
        /\ k \in AlertKeys(events)
        /\ emitAt[k] = now
        /\ now - prevEmitAt[k] = ALERT_THROTTLE_MS

(* C3: two HazardAlerts shown by different position updates, for the same  *)
(* or for different hazards, are never less than GLOBAL_THROTTLE_MS        *)
(* (2500 ms) apart.                                                        *)
C3_GlobalCoolDown ==
    \A a, b \in ShownLatest \cup ShownBefore :
        a[3] < b[3] => b[3] - a[3] >= GLOBAL_THROTTLE_MS

(* C4: a hazard whose bearing differs from the resolved heading (the       *)
(* device's, else the bearing from the previous position) by more than     *)
(* AHEAD_ANGLE_DEG never alerts; a difference of exactly 60 may alert.     *)
C4_AheadFilter ==
    [][(call'.op = "position" /\ (call'.heading # NoValue \/ lastPos # <<>>)) =>
          LET resolved == IF call'.heading # NoValue THEN call'.heading
                          ELSE bearing(lastPos[1], lastPos'[1])
          IN \A i \in EventsOf(events', "HazardAlert") :
                 Separation(bearing(lastPos'[1], events'[i].key), resolved)
                     <= AHEAD_ANGLE_DEG]_vars

(* An alert for a hazard exactly 60 degrees off the device's heading.      *)
C4_AlertAtSixty ==
    /\ Ingested
    /\ call.heading # NoValue
    /\ \E i \in EventsOf(events, "HazardAlert") :
           Separation(bearing(lastPos[1], events[i].key), call.heading)
               = AHEAD_ANGLE_DEG

(* C5: after every position update, a hazard within alert distance that    *)
(* lies exactly on the device's heading has alerted within the current     *)
(* cool-down window (now, or less than 5000 ms ago).                       *)
C5_HazardAheadAlerts ==
    (call.op = "position" /\ call.heading # NoValue) =>
        \A r \in CatalogHazards :
            (/\ InAlertRange(lastPos, r)
             /\ Separation(bearing(lastPos[1], r.lat), call.heading) = 0)
            => /\ Key(r) \in DOMAIN emitAt
               /\ now - emitAt[Key(r)] < ALERT_THROTTLE_MS

(* C6: on the first sample, when the device supplies no heading, every     *)
(* hazard within alert distance alerts, whatever its direction.            *)
C6_NoHeadingIsPermissive ==
    [][(/\ lastPos = <<>>
        /\ call'.op = "position"
        /\ call'.heading = NoValue
        /\ ~threw')
       => \A r \in CatalogHazards :
              InAlertRange(lastPos', r) => Key(r) \in AlertKeys(events')]_vars

(* C7: whenever no reload is running, the markers are exactly those of the *)
(* hazards of the current catalog within CAMERA_VISIBLE_M of the last      *)
(* position, each at its hazard's place.                                   *)
C7_VisibleSetExact ==
    (loadPc = "idle" /\ ~threw) =>
        /\ DOMAIN visibleMarkers =
               {i \in 1..Len(radars) :
                   /\ lastPos # <<>>
                   /\ distanceMeters(lastPos[1], radars[i].lat)
                          <= CAMERA_VISIBLE_M * 1000}
        /\ \A i \in DOMAIN visibleMarkers :
               i <= Len(radars) /\ visibleMarkers[i] = radars[i].lat

(* C8: after every position update a zone is active exactly when the       *)
(* position passes the membership test of some zone of the catalog, and    *)
(* the active zone is that zone.                                           *)
C8_SessionIffMembership ==
    Ingested =>
        LET found == FirstZoneAt(avgZones, 1, lastPos[1])
        IN /\ (active # <<>>) <=> (found # <<>>)
           /\ active = found

(* C9: a position update emits ZoneEntered exactly when no zone was active *)
(* and the position passes the membership test, and ZoneExited exactly     *)
(* when a zone was active and the position fails it.                       *)
C9_ZoneEventsAlternate ==
    [][(call'.op = "position" /\ ~threw') =>
          LET member == FirstZoneAt(avgZones, 1, lastPos'[1]) # <<>>
          IN /\ Cardinality(EventsOf(events', "ZoneEntered"))
                    = (IF active = <<>> /\ member THEN 1 ELSE 0)
             /\ Cardinality(EventsOf(events', "ZoneExited"))
                    = (IF active # <<>> /\ ~member THEN 1 ELSE 0)]_vars

(* C10: a ZoneExited carries avgKmh, the mean of the speeds sampled while  *)
(* the zone was active (0 when there were none).                           *)
C10_ExitCarriesMean ==
    \A i \in EventsOf(events, "ZoneExited") :
        /\ "avgKmh" \in DOMAIN events[i]
        /\ events[i].avgKmh * Max(1, Len(sessionKmh)) = SumOf(sessionKmh)

(* C11: when the position leaves the active zone and passes the membership *)
(* test of another zone, the same update emits ZoneExited for the old zone *)
(* and then ZoneEntered for the new one, and the new zone is active.       *)
C11_ExitThenEnter ==
    [][(/\ call'.op = "position"
        /\ ~threw'
        /\ active # <<>>
        /\ ~OnCorridor(active[1], lastPos'[1])
        /\ FirstZoneAt(avgZones, 1, lastPos'[1]) # <<>>)
       => LET found == FirstZoneAt(avgZones, 1, lastPos'[1])
          IN /\ active' = found
             /\ \E i \in EventsOf(events', "ZoneExited"),
                   j \in EventsOf(events', "ZoneEntered") :
                    /\ i < j
                    /\ events'[i].zone = active[1]
                    /\ events'[j].zone = found[1]]_vars

(* C12: every position update that runs the pipeline reads a hazard        *)
(* catalog and a zone catalog assigned by the same load: never one that    *)
(* the running reload has already replaced next to one it has not.         *)
C12_OneSnapshotPerIngest == Ingested => (scdbPending = zonesPending)

(* C13: no step of a reload changes the alert ledger or lastAlertTs, and   *)
(* none changes the active zone or its progress while that zone is in the  *)
(* zone catalog after the step.                                            *)
C13_ReloadKeepsLedgerAndSession ==
    [][call'.op = "reload" =>
          /\ perCameraLastAlert' = perCameraLastAlert
          /\ lastAlertTs' = lastAlertTs
          /\ (/\ active # <<>>
              /\ \E i \in 1..Len(avgZones') : avgZones'[i] = active[1])
             => /\ active' = active
                /\ progress' = progress
                /\ sessionKmh' = sessionKmh]_vars

(* A reload has finished while a camera that alerted before it is still in *)
(* its cool-down and the active zone is still in the catalog.              *)
C13_ReloadedInCoolDown ==
    /\ call.op = "reload"
    /\ loadPc = "idle"
    /\ reloads > 0
    /\ \E k \in DOMAIN perCameraLastAlert :
           now - perCameraLastAlert[k] < ALERT_THROTTLE_MS
    /\ active # <<>>
    /\ \E i \in 1..Len(avgZones) : avgZones[i] = active[1]

(* C14: when a reload has finished, a zone of the catalog that was active  *)
(* and is no longer in the zone catalog is no longer active.               *)
C14_ReloadExitsRemovedZone ==
    (/\ call.op = "reload"
     /\ loadPc = "idle"
     /\ reloads > 0
     /\ active # <<>>)
    => \/ active[1].synthetic
       \/ \E i \in 1..Len(avgZones) : avgZones[i] = active[1]

(* C15: a processed sample that carries a speed stores it, in km/h, in     *)
(* lastSpeedKmh; one that carries none leaves lastSpeedKmh as it was.      *)
C15_StickySpeed ==
    [][call'.op = "position" =>
          lastSpeedKmh' = IF call'.speedMps # NoValue
                          THEN (call'.speedMps * 36 + 5) \div 10
                          ELSE lastSpeedKmh]_vars

(* C16: the heading a processed sample is evaluated with is the device's   *)
(* if it gave one, else the bearing from the previous position if there is *)
(* one, else no heading at all.                                            *)
C16_HeadingResolution ==
    [][call'.op = "position" =>
          userHeading' = IF call'.heading # NoValue THEN call'.heading
                         ELSE IF lastPos # <<>>
                              THEN bearing(lastPos[1], lastPos'[1])
                              ELSE NoValue]_vars

EventRank(e) ==
    IF e.type = "VisibleSetChanged" THEN 1
    ELSE IF e.type = "HazardAlert" THEN 2
    ELSE 3

(* C17: in the events of one update every VisibleSetChanged precedes every *)
(* HazardAlert, and every HazardAlert precedes every zone event.           *)
C17_EventOrder ==
    \A i, j \in 1..Len(events) :
        i < j => EventRank(events[i]) <= EventRank(events[j])

(* C18: no position sample makes handlePositionInternal throw: the handler *)
(* always reaches the marker refresh, the camera scan and the zone check.  *)
C18_NoSampleThrows == call.op = "position" => ~threw

BadRecordLoaded == \E i \in 1..Len(scdbFile) : IsNaN(scdbFile[i].lat)

(* The finite records of the file within CAMERA_VISIBLE_M of the position. *)
FiniteInView ==
    {scdbFile[i].lat : i \in {n \in 1..Len(scdbFile) :
        /\ ~IsNaN(scdbFile[n].lat)
        /\ 11119 * Abs(scdbFile[n].lat - lastPos[1]) <= CAMERA_VISIBLE_M * 1000}}

(* C19: a record without finite coordinates never gets a marker, an alert  *)
(* or a ledger entry, and the markers after an update are those of the     *)
(* finite records in view, as if the record were not in the file.          *)
C19_BadRecordIsInert ==
    /\ \A i \in DOMAIN visibleMarkers : ~IsNaN(visibleMarkers[i])
    /\ \A i \in EventsOf(events, "HazardAlert") : ~IsNaN(events[i].key)
    /\ \A k \in DOMAIN perCameraLastAlert : ~IsNaN(k)
    /\ Ingested =>
           {visibleMarkers[i] : i \in DOMAIN visibleMarkers} = FiniteInView

(* An update has alerted for a camera of a file that also holds a record   *)
(* without coordinates.                                                    *)
C19_AlertBesideBadRecord ==
    /\ BadRecordLoaded
    /\ Ingested
    /\ visibleMarkers # <<>>
    /\ EventsOf(events, "HazardAlert") # {}

CallbackEvents(lat, speedMps, heading, accuracy, t) ==
    IF ~throttlePasses(t, last) \/ accuracy THEN <<>>
    ELSE RunPipeline(lat, ResolveSpeed(speedMps),
                     ResolveHeading(heading, lat), t).st.out

(* The wall-clock delays after which a callback is past the position      *)
(* throttle, so that the handler runs.                                     *)
HandledDelays == {dt \in TimeSteps : throttlePasses(now + dt, last)}

(* C21: the events of a handled sample depend on the state and on the      *)
(* sample only: the same sample produces the same events whatever the wall *)
(* clock shows when it is delivered.                                       *)
C21_ClockIndependent ==
    \A lat \in Lats, heading \in Headings, dt1, dt2 \in HandledDelays :
        CallbackEvents(lat, NoValue, heading, FALSE, now + dt1)
            = CallbackEvents(lat, NoValue, heading, FALSE, now + dt2)

(* A camera passes the three tests of the scan at time t, with the ledger  *)
(* as it is.                                                               *)
Qualifies(r, lat, headingDeg, t) ==
    /\ LessEq(distanceMeters(lat, r.lat), ALERT_DISTANCE_M * 1000)
    /\ Separation(bearing(lat, r.lat), headingDeg) <= AHEAD_ANGLE_DEG
    /\ t - LedgerGet(perCameraLastAlert, Key(r)) >= ALERT_THROTTLE_MS

(* C22: an alert is for the nearest camera that qualifies: no qualifying   *)
(* camera of the catalog is strictly closer than an alerted one.           *)
C22_NearestAlerts ==
    [][(call'.op = "position" /\ ~threw') =>
          \A i \in EventsOf(events', "HazardAlert") :
              \A r \in CatalogHazards :
                  Qualifies(r, lastPos'[1], userHeading', now')
                  => distanceMeters(lastPos'[1], r.lat)
                         >= distanceMeters(lastPos'[1], events'[i].lat)]_vars

(* C23: an update that alerts for a camera records now for it in the       *)
(* ledger and in lastAlertTs and changes no other entry; an update that    *)
(* alerts for nothing changes neither.                                     *)
C23_LedgerFollowsAlerts ==
    [][call'.op = "position" =>
          /\ \A k \in AlertKeys(events') :
                 LedgerGet(perCameraLastAlert', k) = now'
          /\ \A k \in (DOMAIN perCameraLastAlert \cup DOMAIN perCameraLastAlert')
                        \ AlertKeys(events') :
                 LedgerGet(perCameraLastAlert', k)
                     = LedgerGet(perCameraLastAlert, k)
          /\ lastAlertTs' = IF AlertKeys(events') # {} THEN now'
                            ELSE lastAlertTs]_vars

(* A step in which refreshVisibleMarkers ran: a handled update that did    *)
(* not throw, or the end of a load with a known position.                  *)
Refreshed ==
    \/ call'.op = "position" /\ ~threw'
    \/ loadPc = "loading" /\ loadPc' = "idle" /\ lastPos # <<>>

EnteredIn(evs) ==
    UNION {evs[i].entered : i \in EventsOf(evs, "VisibleSetChanged")}

ExitedIn(evs) ==
    UNION {evs[i].exited : i \in EventsOf(evs, "VisibleSetChanged")}

InView(pos, r) ==
    LessEq(distanceMeters(pos, r.lat), CAMERA_VISIBLE_M * 1000)

(* C24: a refresh reports an exact difference: a camera of the catalog     *)
(* entered iff it is within the radius and had no marker, it exited iff it *)
(* had a marker and is beyond the radius, nothing both entered and exited, *)
(* the new marker set is the old one minus the exited plus the entered,    *)
(* and a second refresh at the same position would change nothing.         *)
C24_RefreshIsExactDiff ==
    [][Refreshed =>
          /\ \A i \in 1..Len(radars') :
                 /\ i \in EnteredIn(events')
                    <=> (InView(lastPos'[1], radars'[i])
                         /\ i \notin DOMAIN visibleMarkers)
                 /\ i \in ExitedIn(events')
                    <=> (i \in DOMAIN visibleMarkers
                         /\ ~InView(lastPos'[1], radars'[i]))
          /\ EnteredIn(events') \cap ExitedIn(events') = {}
          /\ DOMAIN visibleMarkers'
                 = (DOMAIN visibleMarkers \ ExitedIn(events'))
                       \cup EnteredIn(events')
          /\ VisibleSetChanged(visibleMarkers',
                 refreshVisibleMarkers(radars', visibleMarkers',
                                       lastPos'[1])) = <<>>]_vars

(* A handled update took the marker of a camera that is now beyond the     *)
(* radius off the map.                                                     *)
C24_MarkerExited ==
    /\ Ingested
    /\ \E i \in ExitedIn(events) :
           i \in 1..Len(radars) /\ ~InView(lastPos[1], radars[i])

(* C25: the angle difference of the scan is the smallest separation of the *)
(* bearing and the heading, within 0..180 and right across the wrap at     *)
(* 360: min(|b-h|, 360-|b-h|); heading 350 against bearing 10 gives 20,    *)
(* which counts as ahead.                                                  *)
C25_AngleDiffIsSeparation ==
    probe.done =>
        LET d == Abs(probe.brg - probe.headingDeg)
        IN /\ probe.angleDiff = Min(d, 360 - d)
           /\ probe.angleDiff \in 0..180
           /\ (probe.brg = 10 /\ probe.headingDeg = 350)
                  => (probe.angleDiff = 20 /\ IsAhead(probe.angleDiff))

(* The difference was taken across the wrap: bearing 10, heading 350.      *)
C25_AcrossTheWrap ==
    /\ probe.done
    /\ probe.brg = 10
    /\ probe.headingDeg = 350
    /\ probe.angleDiff = 20

(* C27: a position is on a corridor iff the gap |dStart + dEnd - total| is *)
(* below 60 m and dStart is at most total + 30 m: a gap of exactly 60 m is *)
(* off the corridor, an overrun of exactly 30 m is on it.                  *)
C27_MembershipIsToleranceTest ==
    probe.done =>
        LET sum == probe.dStart + probe.dEnd
            gap == IF sum >= probe.total THEN sum - probe.total
                   ELSE probe.total - sum
            overrun == probe.dStart - probe.total
        IN /\ probe.on <=> (gap < 60000 /\ overrun <= 30000)
           /\ gap = 60000 => ~probe.on
           /\ (overrun = 30000 /\ gap < 60000) => probe.on

(* The test was applied to a gap of exactly 60 m on a corridor of 100 m,   *)
(* with no overrun, and gave off the corridor.                             *)
C27_GapOfSixty ==
    /\ probe.done
    /\ probe.total = 100000
    /\ probe.dStart = 100000
    /\ probe.dEnd = 60000
    /\ ~probe.on

(* C26: a camera is its coordinates: one update shows at most one alert    *)
(* for a pair of coordinates, however many records carry them, and an      *)
(* alert for coordinates shown less than ALERT_THROTTLE_MS ago suppresses  *)
(* the alert, whatever index the camera has in the catalog by now.         *)
C26_IdentityIsCoordinates ==
    [][call'.op = "position" =>
          /\ \A i, j \in AlertsIn(events') :
                 events'[i].lat = events'[j].lat => i = j
          /\ \A i \in AlertsIn(events') :
                 events'[i].lat \in DOMAIN emitAt
                 => now' - emitAt[events'[i].lat] >= 5000]_vars

(* After the reload the camera alerted before it stands second in the      *)
(* catalog, in range and ahead, and is not alerted again within the        *)
(* interval, while the camera new to the catalog is.                       *)
C26_SuppressedAtNewIndex ==
    /\ Ingested
    /\ reloads = 1
    /\ loadPc = "idle"
    /\ radars = <<H2, H1>>
    /\ InAlertRange(lastPos, H1)
    /\ bearing(lastPos[1], H1.lat) = userHeading
    /\ H1.lat \in DOMAIN emitAt
    /\ emitAt[H1.lat] < now
    /\ now - emitAt[H1.lat] < 5000
    /\ \A i \in AlertsIn(events) : events[i].lat # H1.lat
    /\ \E i \in AlertsIn(events) : events[i].lat = H2.lat
    /\ H2.lat \notin DOMAIN prevEmitAt

(* The zone detectAvgZoneProgress takes at the last position.              *)
Matched == FirstZoneAt(avgZones, 1, lastPos[1])

(* C28: every progress reported is a number between 0 and 1 (here between  *)
(* 0 and 100 percent), the clamped quotient of dStart and total, also for  *)
(* a corridor whose start is its end.                                      *)
C28_PctWithinUnit ==
    Ingested =>
        \A i \in EventsOf(events, "ZoneProgress") :
            /\ events[i].pct \in 0..100
            /\ distanceMeters(Matched[1].start, Matched[1].end) > 0
               => events[i].pct
                      = clamp((distanceMeters(Matched[1].start, lastPos[1]) * 100)
                                  \div distanceMeters(Matched[1].start,
                                                      Matched[1].end),
                              0, 100)

(* C29: progress reported for a zone session is progress along that zone:  *)
(* the zone whose limit is shown is the zone the position matches.         *)
C29_ProgressOfActiveZone ==
    Ingested =>
        \A i \in EventsOf(events, "ZoneProgress") :
            events[i].zone # <<>> => events[i].zone = Matched

(* C30: from one handled sample to the next, while the session of a zone   *)
(* lasts, the position stays on that zone and its distance from the start  *)
(* does not fall, the progress does not fall.                              *)
C30_ProgressMonotonic ==
    [][(/\ Ingested
        /\ call'.op = "position"
        /\ ~threw'
        /\ Matched # <<>>
        /\ active = Matched
        /\ active' = active
        /\ OnCorridor(Matched[1], lastPos'[1])
        /\ distanceMeters(Matched[1].start, lastPos'[1])
               >= distanceMeters(Matched[1].start, lastPos[1]))
       => progress' >= progress]_vars

(* C31: the buffer of speed samples never holds more than                  *)
(* zoneSpeedSampleCap (80) samples, and it holds the most recent samples   *)
(* of the session in the order they arrived: a sample appended to a full   *)
(* buffer pushes the oldest one out.                                       *)
C31_BufferHoldsLatest ==
    LET kept == IF probe.arrived < 80 THEN probe.arrived ELSE 80
    IN /\ Len(probe.speedSamples) <= 80
       /\ probe.speedSamples
              = [i \in 1..kept |-> probe.arrived - kept + i]

(* More samples arrived in the session than the buffer holds: the buffer   *)
(* is full and begins with the 80th newest.                                *)
C31_OldestDropped ==
    /\ probe.inZone
    /\ probe.arrived > 80
    /\ Len(probe.speedSamples) = 80
    /\ probe.speedSamples[1] = probe.arrived - 79
    /\ probe.speedSamples[80] = probe.arrived

(* The places in the zone catalog whose zone passes the tolerance test at  *)
(* the last position.                                                      *)
MatchingPlaces ==
    {j \in 1..Len(avgZones) : OnCorridor(avgZones[j], lastPos[1])}

(* C32: of the zones a position matches, the one that stands first in the  *)
(* catalog is taken and the others are ignored: a handled update reports   *)
(* the progress along that zone, once, and reports no progress when no     *)
(* zone matches.                                                           *)
C32_FirstInCatalogOrder ==
    Ingested =>
        IF MatchingPlaces = {}
        THEN EventsOf(events, "ZoneProgress") = {}
        ELSE LET first == CHOOSE j \in MatchingPlaces :
                              \A k \in MatchingPlaces : j <= k
             IN /\ Cardinality(EventsOf(events, "ZoneProgress")) = 1
                /\ \A i \in EventsOf(events, "ZoneProgress") :
                       events[i].pct = PctOf(avgZones[first], lastPos[1])
                /\ progress = PctOf(avgZones[first], lastPos[1])

(* At the junction the position matches both zones; with Z3 first in the   *)
(* catalog the progress is that of Z3, which differs from that of Z1.      *)
C32_TwoZonesMatch ==
    /\ Ingested
    /\ avgZones = <<Z3, Z1>>
    /\ MatchingPlaces = {1, 2}
    /\ progress = PctOf(Z3, lastPos[1])
    /\ PctOf(Z3, lastPos[1]) # PctOf(Z1, lastPos[1])

(* C33: every camera a handled update alerts for has a marker at the end   *)
(* of that update: the alert distance is below the marker distance and the *)
(* markers are refreshed before the scan.                                  *)
C33_AlertedIsVisible ==
    Ingested =>
        \A i \in AlertsIn(events) :
            \E j \in DOMAIN visibleMarkers :
                j <= Len(radars) /\ radars[j].lat = events[i].lat

(* A handled update alerted for a camera, which has its marker.            *)
C33_AlertWithMarker ==
    /\ Ingested
    /\ \E i \in AlertsIn(events) :
           \E j \in DOMAIN visibleMarkers :
               j <= Len(radars) /\ radars[j].lat = events[i].lat

(* What a position callback can change besides the clock and the record of *)
(* the call.                                                               *)
engineState == <<radars, avgZones, lastPos, userHeading, lastSpeedKmh,
                 lastAlertTs, perCameraLastAlert, visibleMarkers, active,
                 progress, last, loadPc, scdbPending, zonesPending>>

(* C34: the position callback is throttled on the leading edge: a handled  *)
(* callback comes at least 300 ms after the handled one before it, a       *)
(* callback less than 300 ms after the last handled one is dropped,        *)
(* changes nothing and emits nothing, and nothing of it is kept to be      *)
(* handled later.                                                          *)
C34_LeadingEdgeThrottle ==
    [][/\ call'.op = "position" => (now' - last >= 300 /\ last' = now')
       /\ (call'.op \in {"position", "dropped"} /\ now' - last < 300)
              => /\ call' = Called("dropped", NoValue, NoValue)
                 /\ engineState' = engineState
                 /\ events' = <<>>]_vars

(* A callback 299 ms after a handled one was dropped: the position is      *)
(* still the one handled before.                                           *)
C34_DroppedInsideInterval ==
    /\ call.op = "dropped"
    /\ now - last = 299
    /\ lastPos # <<>>

(* The step in which a load of the camera file ended in its catch.         *)
LoadFailed == scdbPending /\ ~scdbPending' /\ scdbFile' = <<>>

(* C35: a failed load of the camera file leaves the catalog empty, not as  *)
(* it was, and leaves the zone catalog and the ledgers alone; while        *)
(* nothing has been loaded since, no handled update alerts.                *)
C35_FailedLoadEmptiesCatalog ==
    [][/\ LoadFailed
          => /\ radars' = <<>>
             /\ avgZones' = avgZones
             /\ perCameraLastAlert' = perCameraLastAlert
             /\ lastAlertTs' = lastAlertTs
       /\ (call'.op = "position" /\ scdbFile' = <<>>)
          => AlertsIn(events') = {}]_vars

(* After the failed reload a handled update at a place where a camera was  *)
(* alerted before shows no alert; the ledger still has its entry and the   *)
(* zones are still loaded.                                                 *)
C35_SilentAfterFailure ==
    /\ Ingested
    /\ reloads = 1
    /\ loadPc = "idle"
    /\ scdbFile = <<>>
    /\ radars = <<>>
    /\ H1.lat \in DOMAIN perCameraLastAlert
    /\ InAlertRange(lastPos, H1)
    /\ avgZones # <<>>
    /\ AlertsIn(events) = {}

(* C36: an alert stays on screen for its whole display time: the overlay   *)
(* is hidden only when 3600 ms have passed since the latest alert was      *)
(* shown, also when the timer of an earlier alert was still pending.       *)
C36_ShownForFullDuration ==
    (probe.hidden /\ probe.shownAt # NoValue) => now - probe.shownAt >= 3600

(* C37: however many times enable() is called, also while an earlier call  *)
(* is waiting for its lock, at most one lock is requested or held and at   *)
(* most one visibilitychange listener is registered. Stated for the runs   *)
(* in which disable() was never called and no listener asked for a lock.   *)
C37_EnableIsIdempotent ==
    (probe.disables = 0 /\ ~probe.woke) =>
        /\ probe.pending + Cardinality(probe.held) <= 1
        /\ probe.listeners <= 1

(* Nothing is waiting: no request and no release.                          *)
NoSleepSettled ==
    /\ probe.pending = 0
    /\ probe.listenerPending = 0
    /\ probe.releasing = {}

(* C38: when every request and release has settled, enabled is true iff a  *)
(* lock is held and this.wakeLock refers to it, no held lock is without a  *)
(* reference, and with NoSleep disabled no lock is held. Stated for the    *)
(* runs in which no two enable() calls overlapped and no listener asked    *)
(* for a lock.                                                             *)
C38_EnabledIffLockHeld ==
    (NoSleepSettled /\ ~probe.overlapped /\ ~probe.woke) =>
        /\ probe.enabled <=> (probe.wakeLock # 0 /\ probe.wakeLock \in probe.held)
        /\ probe.held \subseteq {probe.wakeLock}
        /\ ~probe.enabled => probe.held = {}

====
